---- MODULE Spec2Model ----
(***************************************************************************)
(* A model of seiyuu-search.py: the fetcher (simple_get), the catalog      *)
(* parser (AnimeList.load_anime_list), the performer-page linker           *)
(* (Seiyuu.load_seiyuu), the search resolver (search_seiyuu) and the GUI   *)
(* state machine of class Main with its three button handlers.             *)
(*                                                                         *)
(* Python values are modelled as follows.  A str is a TLA+ string, indexed *)
(* from 0 by the helpers below as Python indexes it.  None is the record   *)
(* [kind |-> "None"].  A call's outcome is a record whose field kind is    *)
(* "raise" when the call ends in an exception that the function does not   *)
(* catch (the field exc names it).                                         *)
(***************************************************************************)
EXTENDS Integers, Sequences, FiniteSets, TLC

VARIABLES
    \* -- simple_get on its own
    url,            \* the argument of simple_get (the number of a url)
    resp,           \* what requests.get does for it
    fetch_pc,       \* "call" before simple_get runs, "done" after
    ret,            \* the outcome of that call
    printed,        \* number of 'Error during requests' lines printed
    \* -- AnimeList(username) on its own
    catalog_user,   \* the constructor's argument
    catalog_resp,   \* what requests.get does for the list page
    catalog_pc,     \* "call" before the constructor runs, "done" after
    catalog,        \* the outcome of AnimeList(username): the object, or a raise
    \* -- Seiyuu.load_seiyuu row by row
    rows,           \* the rows of the page's second table
    row_i,          \* how many rows the loop has handled
    characters,     \* self.characters
    seiyuu_exc,     \* the exception that ended the loop, "" when none did
    \* -- search_seiyuu on its own
    search,         \* the search term
    search_resp,    \* what requests.get does for the search page
    search_pc,      \* "call" before search_seiyuu runs, "done" after
    found,          \* the outcome of search_seiyuu: the dict, or a raise
    \* -- class Main
    state,          \* self.state
    user_var,       \* the text of the username entry
    seiyuu_var,     \* the text of the voice-actor entry
    anime_list,     \* self.anime_list
    seiyuu_list,    \* self.seiyuu_list
    seiyuu,         \* self.seiyuu
    listbox,        \* the names the listbox shows (as a set)
    results,        \* the rows of results_frame, in grid order
    message,        \* the text of message_label
    last            \* the handler that ran last, and the exception it ended in

fetchVars == <<url, resp, fetch_pc, ret, printed>>
catalogVars == <<catalog_user, catalog_resp, catalog_pc, catalog>>
linkVars == <<rows, row_i, characters, seiyuu_exc>>
searchVars == <<search, search_resp, search_pc, found>>
mainVars == <<state, user_var, seiyuu_var, anime_list, seiyuu_list, seiyuu, listbox,
              results, message, last>>
\* what the handlers of Main leave alone (search_resp records the answer
\* to the last search request)
otherVars == <<fetchVars, catalogVars, linkVars, search, search_pc, found>>
vars == <<fetchVars, catalogVars, linkVars, searchVars, mainVars>>

None == [kind |-> "None"]
Raise(e) == [kind |-> "raise", exc |-> e]

\* ------------------------------------------------------------------ str
\* Body(v), with v evaluated once
Let(v, Body(_)) == CHOOSE y \in {Body(x) : x \in {v}} : TRUE

Min(S) == Let(S, LAMBDA T : CHOOSE m \in T : \A n \in T : m <= n)

UpperCase == "ABCDEFGHIJKLMNOPQRSTUVWXYZ"
LowerCase == "abcdefghijklmnopqrstuvwxyz"

\* s[i], 0 <= i < len(s)
At(s, i) == SubSeq(s, i + 1, i + 1)

\* str.lower() of one character
LowerChar(c) ==
    IF \E k \in 1..Len(UpperCase) : SubSeq(UpperCase, k, k) = c
    THEN LET k == CHOOSE k \in 1..Len(UpperCase) : SubSeq(UpperCase, k, k) = c
         IN SubSeq(LowerCase, k, k)
    ELSE c

\* str.lower(): character by character, the string split in halves
RECURSIVE Lower(_)
Lower(s) ==
    Let(s, LAMBDA t :
        IF Len(t) = 0 THEN ""
        ELSE IF Len(t) = 1 THEN LowerChar(t)
        ELSE Lower(SubSeq(t, 1, Len(t) \div 2))
                \o Lower(SubSeq(t, Len(t) \div 2 + 1, Len(t))))

\* s.find(sub, start): the lowest index >= start where sub occurs, else -1
Find(s, sub, start) ==
    Let(s, LAMBDA t :
        Let({k \in start..(Len(t) - Len(sub)) : SubSeq(t, k + 1, k + Len(sub)) = sub},
            LAMBDA at : IF at = {} THEN -1 ELSE Min(at)))

\* s[a:b] for a >= 0 and any b: a negative b counts from the end
Slice(s, a, b) ==
    Let(s, LAMBDA t :
        LET n == Len(t)
            hi == IF b < 0 THEN (IF b + n < 0 THEN 0 ELSE b + n) ELSE (IF b > n THEN n ELSE b)
            lo == IF a > n THEN n ELSE a
        IN IF lo >= hi THEN "" ELSE SubSeq(t, lo + 1, hi))

\* s.replace(old, new), old non-empty: occurrences are replaced left to right
RECURSIVE Replace(_, _, _)
Replace(s, old, new) ==
    Let(s, LAMBDA t :
        Let(Find(t, old, 0), LAMBDA k :
            IF k = -1 THEN t
            ELSE Slice(t, 0, k) \o new
                    \o Replace(Slice(t, k + Len(old), Len(t)), old, new)))

\* ----------------------------------------------------------- simple_get
\* resp.headers[name] of requests' case-insensitive header dictionary
HasHeader(headers, name) == Lower(name) \in DOMAIN headers
HeaderGet(headers, name) == headers[Lower(name)]

is_good_response(r) ==
    IF ~HasHeader(r.headers, "Content-Type")
    THEN Raise("KeyError")
    ELSE LET content_type == Lower(HeaderGet(r.headers, "Content-Type"))
         IN [kind |-> "bool", val |-> (Find(content_type, "html", 0) > -1)]

\* r is what requests.get(url, stream=True) does: r.exc when it raises a
\* RequestException, else a response with headers and content
simple_get(r) ==
    IF r.exc
    THEN None
    ELSE LET good == is_good_response(r)
         IN IF good.kind = "raise" THEN good
            ELSE IF good.val THEN [kind |-> "bytes", content |-> r.content]
            ELSE None

\* ------------------------------------------------------ fetch responses
NumUrls == 2
MaxContent == 2

Types == {"text", "application", "TEXT"}
Subtypes == {"html", "xml", "json", "plain", "xhtml+xml", "HTML"}
Params == {"", "; charset=utf-8", "; note=html"}
ContentTypes == {t \o "/" \o s \o p : t \in Types, s \in Subtypes, p \in Params}

RECURSIVE Bytes(_)
Bytes(n) == IF n = 0 THEN "" ELSE "x" \o Bytes(n - 1)

NoHeaders == [n \in {} |-> ""]
WithContentType(ct) == [n \in {"content-type"} |-> ct]

\* requests.get raises a RequestException; c is a content of the type the
\* caller reads, and is never read
Fail(c) == [exc |-> TRUE, headers |-> NoHeaders, content |-> c]
Failed == Fail("")
Responses(contents) ==
    {Failed}
    \cup {[exc |-> FALSE, headers |-> h, content |-> c] :
            h \in {NoHeaders} \cup {WithContentType(ct) : ct \in ContentTypes},
            c \in contents}

\* simple_get(url)
Get ==
    /\ fetch_pc = "call"
    /\ ret' = simple_get(resp)
    /\ printed' = IF resp.exc THEN 1 ELSE 0
    /\ fetch_pc' = "done"
    /\ UNCHANGED <<url, resp, catalogVars, linkVars, searchVars, mainVars>>

\* ----------------------------------------------------------------- eval
(***************************************************************************)
(* eval(text) for the expressions load_anime_list hands it: one dict       *)
(* display, or several separated by commas (a tuple).  A dict display has  *)
(* string keys and values that are strings, integers, None, True or False. *)
(* Any other text is a raise.  A dict is a function from its keys to       *)
(* [t |-> type, v |-> text of the value]; on a repeated key the later      *)
(* value stands, as in Python.                                             *)
(***************************************************************************)
Digits == "0123456789"
NameChars == "abcdefghijklmnopqrstuvwxyzABCDEFGHIJKLMNOPQRSTUVWXYZ_"
IsIn(c, chars) == \E k \in 1..Len(chars) : SubSeq(chars, k, k) = c

Bad == [ok |-> FALSE, pos |-> 0]
Parsed(pos, val) == [ok |-> TRUE, pos |-> pos, val |-> val]

\* d[key] = value
DictSet(d, key, value) ==
    Let(d, LAMBDA dd : [k \in DOMAIN dd \cup {key} |-> IF k = key THEN value ELSE dd[k]])

\* the first index >= i holding no blank
RECURSIVE SkipWs(_, _)
SkipWs(s, i) ==
    Let(i, LAMBDA a : IF a < Len(s) /\ At(s, a) = " " THEN SkipWs(s, a + 1) ELSE a)

\* the first index >= i holding no character of chars
RECURSIVE Span(_, _, _)
Span(s, i, chars) ==
    Let(i, LAMBDA a :
        IF a < Len(s) /\ IsIn(At(s, a), chars) THEN Span(s, a + 1, chars) ELSE a)

\* a string literal, an integer, None, True or False at index i
ParseAtom(s, i) ==
    IF i >= Len(s) THEN Bad
    ELSE IF At(s, i) = "\""
    THEN Let(Find(s, "\"", i + 1), LAMBDA j :
            IF j = -1 THEN Bad ELSE Parsed(j + 1, [t |-> "str", v |-> Slice(s, i + 1, j)]))
    ELSE IF IsIn(At(s, i), Digits)
    THEN Let(Span(s, i, Digits), LAMBDA j :
            IF j < Len(s) /\ IsIn(At(s, j), NameChars) THEN Bad
            ELSE Parsed(j, [t |-> "int", v |-> Slice(s, i, j)]))
    ELSE IF IsIn(At(s, i), NameChars)
    THEN Let(Span(s, i, NameChars \o Digits), LAMBDA j :
            Let(Slice(s, i, j), LAMBDA w :
                IF w = "None" THEN Parsed(j, [t |-> "None", v |-> w])
                ELSE IF w \in {"True", "False"} THEN Parsed(j, [t |-> "bool", v |-> w])
                ELSE Bad))
    ELSE Bad

\* key : value at index i, the key a string literal
ParsePair(s, i) ==
    Let(ParseAtom(s, i), LAMBDA key :
        IF ~key.ok \/ key.val.t # "str" THEN Bad
        ELSE Let(SkipWs(s, key.pos), LAMBDA c :
                IF c >= Len(s) \/ At(s, c) # ":" THEN Bad
                ELSE Let(ParseAtom(s, SkipWs(s, c + 1)), LAMBDA value :
                        IF ~value.ok THEN Bad
                        ELSE Parsed(value.pos, [key |-> key.val.v, value |-> value.val]))))

\* the pairs of a dict display from index i, after its opening brace or a
\* comma; d holds the pairs read so far
RECURSIVE ParsePairs(_, _, _)
ParsePairs(s, i, d) ==
    Let(SkipWs(s, i), LAMBDA a :
        IF a >= Len(s) THEN Bad
        ELSE IF At(s, a) = "}" THEN Parsed(a + 1, d)
        ELSE Let(ParsePair(s, a), LAMBDA p :
                IF ~p.ok THEN Bad
                ELSE Let(SkipWs(s, p.pos), LAMBDA e :
                     Let(DictSet(d, p.val.key, p.val.value), LAMBDA d2 :
                        IF e >= Len(s) THEN Bad
                        ELSE IF At(s, e) = "}" THEN Parsed(e + 1, d2)
                        ELSE IF At(s, e) = "," THEN ParsePairs(s, e + 1, d2)
                        ELSE Bad))))

EmptyDict == [k \in {} |-> [t |-> "None", v |-> "None"]]

\* a dict display at index i
ParseDict(s, i) ==
    Let(SkipWs(s, i), LAMBDA a :
        IF a >= Len(s) \/ At(s, a) # "{" THEN Bad ELSE ParsePairs(s, a + 1, EmptyDict))

\* dict displays separated by commas, to the end of the text
RECURSIVE ParseDicts(_, _, _)
ParseDicts(s, i, acc) ==
    Let(ParseDict(s, i), LAMBDA d :
        IF ~d.ok THEN Bad
        ELSE Let(SkipWs(s, d.pos), LAMBDA e :
             Let(Append(acc, d.val), LAMBDA acc2 :
                IF e >= Len(s) THEN Parsed(e, acc2)
                ELSE IF At(s, e) = "," THEN ParseDicts(s, e + 1, acc2)
                ELSE Bad)))

\* eval(text): [kind |-> "dict", val |-> d], [kind |-> "tuple", items |-> ds]
\* or a raise
Eval(text) ==
    Let(text, LAMBDA s :
        Let(ParseDicts(s, 0, <<>>), LAMBDA r :
            IF ~r.ok THEN Raise("SyntaxError")
            ELSE IF Len(r.val) = 1 THEN [kind |-> "dict", val |-> r.val[1]]
            ELSE [kind |-> "tuple", items |-> r.val]))

\* ------------------------------------------------------------ AnimeList
Origin == "https://myanimelist.net"
Marker == "data-items"
MarkerSkip == 14

\* the textual substitutions, applied in this order
Unescape(text) ==
    Replace(Replace(Replace(Replace(Replace(text,
        "&quot;", "\""), "null", "None"), "true", "True"), "false", "False"), "\\", "")

\* mylist[i:mylist.find(']',i)-1] with i = mylist.find('data-items')+14
Cut(mylist) ==
    Let(Find(mylist, Marker, 0) + MarkerSkip, LAMBDA i :
        Slice(mylist, i, Find(mylist, "]", i) - 1))

\* list(eval(mylist)): a tuple lists its items and a dict its keys (in an
\* order the model does not keep: every use of a key below raises)
ListOf(e) ==
    IF e.kind = "tuple" THEN [k \in 1..Len(e.items) |-> [t |-> "dict", v |-> e.items[k]]]
    ELSE LET RECURSIVE Keys(_)
             Keys(S) == IF S = {} THEN <<>>
                        ELSE LET k == CHOOSE k \in S : TRUE
                             IN <<[t |-> "str", v |-> k]>> \o Keys(S \ {k})
         IN Keys(DOMAIN e.val)

\* what Anime(A['anime_title'], 'https://myanimelist.net' + A['anime_url'])
\* raises for one element A of the list, "" when it raises nothing
ItemError(A) ==
    IF A.t # "dict" THEN "TypeError"
    ELSE IF "anime_title" \notin DOMAIN A.v THEN "KeyError"
    ELSE IF "anime_url" \notin DOMAIN A.v THEN "KeyError"
    ELSE IF A.v["anime_url"].t # "str" THEN "TypeError"
    ELSE ""

Anime(name, a_url) == [name |-> name, url |-> a_url]

\* AnimeList.__init__'s fields, before load_anime_list runs
NewAnimeList(username) ==
    [kind |-> "AnimeList",
     username |-> username,
     url |-> Origin \o "/animelist/" \o username,
     anime |-> <<>>,
     anime_details |-> <<>>,
     is_valid |-> FALSE]

\* the fields load_anime_list sets from the list of the objects read
Loaded(self, details) ==
    [self EXCEPT
        !.anime_details = details,
        !.anime = [k \in 1..Len(details) |->
                     Anime(details[k].v["anime_title"],
                           Origin \o details[k].v["anime_url"].v)],
        !.is_valid = TRUE]

\* AnimeList(username), the page request answered by r: the object built,
\* or the exception that leaves the constructor
AnimeList(username, r) ==
    Let(simple_get(r), LAMBDA got :
        IF got.kind = "raise" THEN got
        ELSE IF got.kind = "None" THEN NewAnimeList(username)
        ELSE Let(Eval(Unescape("{" \o Cut(got.content) \o "}")), LAMBDA e :
                IF e.kind = "raise" THEN e
                ELSE Let(ListOf(e), LAMBDA details :
                     Let({k \in 1..Len(details) : ItemError(details[k]) # ""}, LAMBDA bad :
                        IF bad # {} THEN Raise(ItemError(details[Min(bad)]))
                        ELSE Loaded(NewAnimeList(username), details)))))

\* ------------------------------------------------------- catalog pages
MaxEntries == 2

\* one object of the embedded array as the page serialises it
EntryText(title, path) ==
    "{&quot;tags&quot;:null,&quot;anime_title&quot;:&quot;" \o title
        \o "&quot;,&quot;anime_url&quot;:&quot;" \o path \o "&quot;}"

EntryPool == {EntryText("A", "\\/a"), EntryText("B", "\\/b")}

RECURSIVE Join(_)
Join(items) ==
    IF Len(items) = 0 THEN ""
    ELSE IF Len(items) = 1 THEN items[1]
    ELSE items[1] \o "," \o Join(Tail(items))

Pres == {"<table ", "<html><table "}
Attrs == {"data-items=\"", "ab=\""}
Closers == {"]", ""}
Posts == {"\">", "\"", "\"><p>[1]</p>"}

CatalogPages ==
    {pre \o attr \o "[" \o Join(items) \o closer \o post :
        pre \in Pres, attr \in Attrs,
        items \in UNION {[1..n -> EntryPool] : n \in 0..MaxEntries},
        closer \in Closers, post \in Posts}

Html == "text/html; charset=UTF-8"
Json == "application/json"
Page(c) == [exc |-> FALSE, headers |-> WithContentType(Html), content |-> c]

CatalogResponses ==
    {Failed, [exc |-> FALSE, headers |-> NoHeaders, content |-> ""]}
    \cup {[exc |-> FALSE, headers |-> WithContentType(ct), content |-> c] :
            ct \in {Html, Json}, c \in CatalogPages}

Usernames == {"bob", "eve"}

\* AnimeList(username)
LoadCatalog ==
    /\ catalog_pc = "call"
    /\ catalog' = AnimeList(catalog_user, catalog_resp)
    /\ catalog_pc' = "done"
    /\ UNCHANGED <<catalog_user, catalog_resp, fetchVars, linkVars, searchVars, mainVars>>

\* --------------------------------------------------------------- Seiyuu
\* str.strip() of blanks
RECURSIVE Strip(_)
Strip(s) ==
    IF Len(s) = 0 THEN s
    ELSE IF At(s, 0) = " " THEN Strip(Slice(s, 1, Len(s)))
    ELSE IF At(s, Len(s) - 1) = " " THEN Strip(Slice(s, 0, Len(s) - 1))
    ELSE s

\* Character(seiyuu, name, role, url): anime starts empty
Character(name, role, c_url) == [name |-> name, role |-> role, url |-> c_url, anime |-> <<>>]

\* [c.url for c in chars], [a.url for a in c.anime]
Urls(items) == [k \in 1..Len(items) |-> items[k].url]
InList(x, list) == \E k \in 1..Len(list) : list[k] = x

\* A table row is [cells |-> TRUE, ...] when cells 1 and 2 hold the links
\* and the role label the loop reads, with entry_text, entry_href (cell 1),
\* entity_text, entity_href, role_text (cell 2); any other row makes the
\* loop's first lookup raise.
RowError(row) == IF row.cells THEN "" ELSE "IndexError"

\* the body of the loop for one row whose lookups succeed
LoadRowNoEntryCheck(chars, row) ==
    LET a_name == Strip(row.entry_text)
        a_url == row.entry_href
        c_name == Strip(row.entity_text)
        c_role == Strip(row.role_text)
        c_url == row.entity_href
    IN IF ~InList(c_url, Urls(chars))
       THEN Append(chars, [Character(c_name, c_role, c_url) EXCEPT
                               !.anime = <<Anime(a_name, a_url)>>])
       ELSE LET k == Min({j \in 1..Len(chars) : chars[j].url = c_url})
            IN [chars EXCEPT ![k].anime = Append(@, Anime(a_name, a_url))]

LoadRowRenames(chars, row) ==
    LET a_name == Strip(row.entry_text)
        a_url == row.entry_href
        c_name == Strip(row.entity_text)
        c_role == Strip(row.role_text)
        c_url == row.entity_href
    IN IF ~InList(c_url, Urls(chars))
       THEN Append(chars, [Character(c_name, c_role, c_url) EXCEPT
                               !.anime = <<Anime(a_name, a_url)>>])
       ELSE LET k == Min({j \in 1..Len(chars) : chars[j].url = c_url})
            IN IF ~InList(a_url, Urls(chars[k].anime))
               THEN [chars EXCEPT ![k].anime = Append(@, Anime(a_name, a_url)),
                                  ![k].name = c_name, ![k].role = c_role]
               ELSE chars

LoadRow(chars, row) ==
    LET a_name == Strip(row.entry_text)
        a_url == row.entry_href
        c_name == Strip(row.entity_text)
        c_role == Strip(row.role_text)
        c_url == row.entity_href
    IN IF ~InList(c_url, Urls(chars))
       THEN Append(chars, [Character(c_name, c_role, c_url) EXCEPT
                               !.anime = <<Anime(a_name, a_url)>>])
       ELSE LET k == Min({j \in 1..Len(chars) : chars[j].url = c_url})
            IN IF ~InList(a_url, Urls(chars[k].anime))
               THEN [chars EXCEPT ![k].anime = Append(@, Anime(a_name, a_url))]
               ELSE chars

\* the whole loop: the characters after the last row, or the raise of the
\* first row whose lookups fail
RECURSIVE LoadRows(_, _)
LoadRows(chars, rs) ==
    IF Len(rs) = 0 THEN [kind |-> "Seiyuu", characters |-> chars]
    ELSE IF RowError(Head(rs)) # "" THEN Raise(RowError(Head(rs)))
    ELSE Let(LoadRow(chars, Head(rs)), LAMBDA next : LoadRows(next, Tail(rs)))

\* ------------------------------------------------------ performer pages
MaxRows == 3

EntityUrls == {Origin \o "/character/1", Origin \o "/character/2"}
EntryUrls == {Origin \o "/a", Origin \o "/b"}
EntityTexts == {"X", " Y "}
RoleTexts == {"Main", "Supporting "}
EntryTextOf(href) == IF href = Origin \o "/a" THEN "A" ELSE " B"

GoodRows ==
    {[cells |-> TRUE, entry_text |-> EntryTextOf(a), entry_href |-> a,
      entity_text |-> n, entity_href |-> c, role_text |-> r] :
        a \in EntryUrls, c \in EntityUrls, n \in EntityTexts, r \in RoleTexts}
BadRow == [cells |-> FALSE, entry_text |-> "", entry_href |-> "",
           entity_text |-> "", entity_href |-> "", role_text |-> ""]

RowSeqs(pool, max) == UNION {[1..n -> pool] : n \in 0..max}

\* one pass of the loop body
NextRow ==
    /\ seiyuu_exc = ""
    /\ row_i < Len(rows)
    /\ RowError(rows[row_i + 1]) = ""
    /\ characters' = LoadRow(characters, rows[row_i + 1])
    /\ row_i' = row_i + 1
    /\ UNCHANGED <<rows, seiyuu_exc, fetchVars, catalogVars, searchVars, mainVars>>

\* a row whose lookups raise ends the loop
RowRaises ==
    /\ seiyuu_exc = ""
    /\ row_i < Len(rows)
    /\ RowError(rows[row_i + 1]) # ""
    /\ seiyuu_exc' = RowError(rows[row_i + 1])
    /\ UNCHANGED <<rows, row_i, characters, fetchVars, catalogVars, searchVars, mainVars>>

\* -------------------------------------------------------- search_seiyuu
(***************************************************************************)
(* The content of a search response is modelled as BeautifulSoup parses    *)
(* it: [title, h1, profile_href, rows], where title is soup.title.string,  *)
(* h1 and profile_href are what the single-profile branch reads, and rows  *)
(* are the <tr> of the first table, each the sequence of its <a> elements  *)
(* as [string |-> text, href |-> attribute].  A dict is a function from    *)
(* its keys.                                                               *)
(***************************************************************************)
SearchTitle == "Search People - MyAnimeList.net\n"

NoResults == [k \in {} |-> ""]

\* the loop over the rows: the dict, or the raise of find_all('a')[1]
RECURSIVE SearchRowsFirstWins(_, _)
SearchRowsFirstWins(names, rs) ==
    IF Len(rs) = 0 THEN [kind |-> "dict", val |-> names]
    ELSE IF Len(Head(rs)) < 2 THEN Raise("IndexError")
    ELSE IF Head(rs)[2].string \in DOMAIN names THEN SearchRowsFirstWins(names, Tail(rs))
    ELSE SearchRowsFirstWins(
            DictSet(names, Head(rs)[2].string, Origin \o Head(rs)[1].href), Tail(rs))

RECURSIVE SearchRows(_, _)
SearchRows(names, rs) ==
    IF Len(rs) = 0 THEN [kind |-> "dict", val |-> names]
    ELSE IF Len(Head(rs)) < 2 THEN Raise("IndexError")
    ELSE SearchRows(DictSet(names, Head(rs)[2].string, Origin \o Head(rs)[1].href), Tail(rs))

\* search_seiyuu(search), the page request answered by r
search_seiyuu_no_empty_case(r) ==
    LET got == simple_get(r)
    IN IF got.kind = "raise" THEN got
       ELSE IF got.kind = "None" THEN Raise("TypeError")
       ELSE LET soup == got.content
            IN IF soup.title # SearchTitle
               THEN [kind |-> "dict", val |-> DictSet(NoResults, soup.h1, soup.profile_href)]
               ELSE SearchRows(NoResults, soup.rows)

search_seiyuu(r) ==
    LET got == simple_get(r)
    IN IF got.kind = "raise" THEN got
       ELSE IF got.kind = "None" THEN Raise("TypeError")
       ELSE LET soup == got.content
            IN IF soup.title # SearchTitle
               THEN [kind |-> "dict", val |-> DictSet(NoResults, soup.h1, soup.profile_href)]
               ELSE IF Len(soup.rows) = 1 /\ Len(soup.rows[1]) = 0
               THEN [kind |-> "dict", val |-> NoResults]
               ELSE SearchRows(NoResults, soup.rows)

\* --------------------------------------------------------- search pages
MaxResultRows == 3

PersonNames == {"X", "Y"}
PersonHrefs == {"/people/1", "/people/2"}
\* a result row: the picture's link, then the name's link
ResultRow(name, href) == <<[string |-> "", href |-> href], [string |-> name, href |-> href]>>
ResultRows == {ResultRow(n, h) : n \in PersonNames, h \in PersonHrefs}
\* a row with no link, and a row with the picture's link only
LinklessRow == <<>>
OneLinkRow == <<[string |-> "", href |-> "/people/1"]>>

ListingPages(max) ==
    {[title |-> SearchTitle, h1 |-> "", profile_href |-> "", rows |-> rs] :
        rs \in RowSeqs(ResultRows \cup {LinklessRow, OneLinkRow}, max)}
ProfilePages ==
    {[title |-> n \o " - MyAnimeList.net\n", h1 |-> n, profile_href |-> Origin \o h,
      rows |-> <<>>] : n \in PersonNames, h \in PersonHrefs}

NoPage == [title |-> "", h1 |-> "", profile_href |-> "", rows |-> <<>>]

SearchResponses(max) ==
    {Fail(NoPage), [exc |-> FALSE, headers |-> NoHeaders, content |-> NoPage]}
    \cup {[exc |-> FALSE, headers |-> WithContentType(ct), content |-> c] :
            ct \in {Html, Json}, c \in ListingPages(max) \cup ProfilePages}

SearchTerms == {"x", "hana kana"}

\* search_seiyuu(search)
Search ==
    /\ search_pc = "call"
    /\ found' = search_seiyuu(search_resp)
    /\ search_pc' = "done"
    /\ UNCHANGED <<search, search_resp, fetchVars, catalogVars, linkVars, mainVars>>

\* ----------------------------------------------------------------- Main
\* Seiyuu(url), the page request answered by r, whose content is modelled
\* as the rows of soup.find_all('table')[1]
Seiyuu(profile, r) ==
    LET got == simple_get(r)
    IN IF got.kind = "raise" THEN got
       ELSE IF got.kind = "None" THEN Raise("TypeError")
       ELSE LET loaded == LoadRows(<<>>, got.content)
            IN IF loaded.kind = "raise" THEN loaded
               ELSE [kind |-> "Seiyuu", url |-> profile, characters |-> loaded.characters]

\* any(item in [A.url for A in list.anime] for item in [A.url for A in c.anime])
AnyShared(c, list) ==
    \E j \in 1..Len(c.anime) : InList(Urls(c.anime)[j], Urls(list.anime))

\* what the loop grids for character c at index i
Rendered(c, i) ==
    [row |-> i, name |-> c.name, anime |-> [j \in 1..Len(c.anime) |-> c.anime[j].name]]

\* the loop of load_char_list from index i on
RECURSIVE RenderNoFilter(_, _, _)
RenderNoFilter(chars, list, i) ==
    IF i >= Len(chars) THEN <<>>
    ELSE <<Rendered(chars[i + 1], i)>> \o RenderNoFilter(chars, list, i + 1)

RECURSIVE RenderNoneIsEmpty(_, _, _)
RenderNoneIsEmpty(chars, list, i) ==
    IF i >= Len(chars) THEN <<>>
    ELSE IF list.kind = "None" \/ ~AnyShared(chars[i + 1], list)
    THEN RenderNoneIsEmpty(chars, list, i + 1)
    ELSE <<Rendered(chars[i + 1], i)>> \o RenderNoneIsEmpty(chars, list, i + 1)

RECURSIVE Render(_, _, _)
Render(chars, list, i) ==
    IF i >= Len(chars) THEN <<>>
    ELSE IF list.kind # "None" /\ ~AnyShared(chars[i + 1], list)
    THEN Render(chars, list, i + 1)
    ELSE <<Rendered(chars[i + 1], i)>> \o Render(chars, list, i + 1)

\* message_label's text after set_state(s)
StateMessage(s) ==
    CASE s = 0 -> "Load anime list from MAL username."
      [] s = 1 -> "Search for voice actor."
      [] s = 2 -> "Select correct voice actor."

\* the widgets set_state enables, read back from the state it stored
UserButtonEnabled == state = 0
SeiyuuEntryEnabled == state \in {1, 2}
SeiyuuButtonEnabled == state = 1
CharButtonEnabled == state = 2

Ran(handler, exc) == [handler |-> handler, exc |-> exc]

\* --------------------------------------------------- what the GUI is fed
MaxGuiRows == 2

UserInputs == {"", " ", "bob"}
SeiyuuInputs == {"", "x"}

GuiCatalogPages ==
    {"",
     "<table data-items=\"[" \o EntryText("A", "\\/a") \o "," \o EntryText("B", "\\/b") \o "]\">",
     "<table data-items=\"[" \o EntryText("A", "\\/a") \o "," \o EntryText("A", "\\/a") \o "]\">",
     "<table data-items=\"[" \o EntryText("A", "\\/a") \o "]\">"}
GuiCatalogResponses ==
    {Failed, [exc |-> FALSE, headers |-> NoHeaders, content |-> ""]}
    \cup {Page(c) : c \in GuiCatalogPages}
\* AnimeList(u, r) for every username and response the GUI is fed, as the
\* set of <<u, r, AnimeList(u, r)>>
GuiCatalogs == {<<u, r, AnimeList(u, r)>> : u \in UserInputs, r \in GuiCatalogResponses}
GuiCatalogOf(u, r) == (CHOOSE t \in GuiCatalogs : t[1] = u /\ t[2] = r)[3]

Listing(rs) == [title |-> SearchTitle, h1 |-> "", profile_href |-> "", rows |-> rs]
GuiSearchPages ==
    {Listing(<<LinklessRow>>),
     Listing(<<ResultRow("X", "/people/1")>>),
     Listing(<<ResultRow("X", "/people/1"), ResultRow("Y", "/people/2")>>),
     Listing(<<LinklessRow, ResultRow("X", "/people/1")>>),
     [title |-> "X - MyAnimeList.net\n", h1 |-> "X",
      profile_href |-> Origin \o "/people/1", rows |-> <<>>]}
GuiSearchResponses == {Fail(NoPage)} \cup {Page(c) : c \in GuiSearchPages}
\* search_seiyuu(r) for every response the GUI is fed, as the set of
\* <<r, search_seiyuu(r)>>
GuiSearches == {<<r, search_seiyuu(r)>> : r \in GuiSearchResponses}
GuiSearchOf(r) == (CHOOSE t \in GuiSearches : t[1] = r)[2]

GuiRow(c, a) ==
    [cells |-> TRUE, entry_text |-> a, entry_href |-> Origin \o "/" \o a,
     entity_text |-> c, entity_href |-> Origin \o "/character/" \o c, role_text |-> "Main"]
GuiRows == {GuiRow("1", "a"), GuiRow("1", "c"), GuiRow("2", "b")}
GuiSeiyuuResponses ==
    {Fail(<<>>)} \cup {Page(rs) : rs \in RowSeqs(GuiRows, MaxGuiRows)}
GuiProfiles == {Origin \o h : h \in PersonHrefs}
\* Seiyuu(url, r) for every profile and response the GUI is fed, as the set
\* of <<url, r, Seiyuu(url, r)>>
GuiSeiyuus == {<<u, r, Seiyuu(u, r)>> : u \in GuiProfiles, r \in GuiSeiyuuResponses}
GuiSeiyuuOf(u, r) == (CHOOSE t \in GuiSeiyuus : t[1] = u /\ t[2] = r)[3]

\* ------------------------------------------------------------- handlers
\* set_state(s)
set_state(s) ==
    /\ message' = StateMessage(s)
    /\ state' = s

\* the user edits the username entry: user_callback
user_callback_no_reset ==
    \E text \in UserInputs \ {user_var} :
        /\ user_var' = text
        /\ last' = Ran("user_callback", "")
        /\ UNCHANGED <<state, message, seiyuu_var, anime_list, seiyuu_list, seiyuu, listbox,
                       results, search_resp, otherVars>>

user_callback ==
    \E text \in UserInputs \ {user_var} :
        /\ user_var' = text
        /\ set_state(0)
        /\ last' = Ran("user_callback", "")
        /\ UNCHANGED <<seiyuu_var, anime_list, seiyuu_list, seiyuu, listbox, results,
                       search_resp, otherVars>>

\* the user edits the voice-actor entry: seiyuu_callback
seiyuu_callback ==
    /\ SeiyuuEntryEnabled
    /\ \E text \in SeiyuuInputs \ {seiyuu_var} :
        /\ seiyuu_var' = text
        /\ set_state(1)
        /\ last' = Ran("seiyuu_callback", "")
        /\ UNCHANGED <<user_var, anime_list, seiyuu_list, seiyuu, listbox, results,
                       search_resp, otherVars>>

\* the Load button
load_anime_list ==
    /\ UserButtonEnabled
    /\ IF Strip(user_var) = ""
       THEN /\ anime_list' = None
            /\ set_state(1)
            /\ last' = Ran("load_anime_list", "")
       ELSE \E r \in GuiCatalogResponses :
              LET made == GuiCatalogOf(user_var, r)
              IN IF made.kind = "raise"
                 THEN /\ last' = Ran("load_anime_list", made.exc)
                      /\ UNCHANGED <<anime_list, state, message>>
                 ELSE /\ anime_list' = made
                      /\ last' = Ran("load_anime_list", "")
                      /\ IF ~made.is_valid
                         THEN /\ state' = 0
                              /\ message' = "Error: invalid MAL username."
                         ELSE set_state(1)
    /\ UNCHANGED <<user_var, seiyuu_var, seiyuu_list, seiyuu, listbox, results, search_resp,
                   otherVars>>

\* the Search button
load_seiyuu_list ==
    /\ SeiyuuButtonEnabled
    /\ \E r \in GuiSearchResponses :
        LET got == GuiSearchOf(r)
        IN /\ search_resp' = r
           /\ IF got.kind = "raise"
              THEN /\ listbox' = {}
                   /\ last' = Ran("load_seiyuu_list", got.exc)
                   /\ UNCHANGED <<seiyuu_list, state, message>>
              ELSE /\ seiyuu_list' = got.val
                   /\ last' = Ran("load_seiyuu_list", "")
                   /\ IF DOMAIN got.val = {}
                      THEN /\ state' = 1
                           /\ message' = "Error: no voice actors found."
                           /\ listbox' = {}
                      ELSE /\ set_state(2)
                           /\ listbox' = DOMAIN got.val
    /\ UNCHANGED <<user_var, seiyuu_var, anime_list, seiyuu, results, otherVars>>

\* the Search Characters button, with k selected in the listbox, or with
\* nothing selected
load_char_list ==
    /\ CharButtonEnabled
    /\ \/ /\ last' = Ran("load_char_list", "TclError")
          /\ UNCHANGED <<seiyuu, results>>
       \/ \E k \in listbox, r \in GuiSeiyuuResponses :
            LET made == GuiSeiyuuOf(seiyuu_list[k], r)
            IN IF made.kind = "raise"
               THEN /\ last' = Ran("load_char_list", made.exc)
                    /\ UNCHANGED <<seiyuu, results>>
               ELSE /\ seiyuu' = made
                    /\ results' = Render(made.characters, anime_list, 0)
                    /\ last' = Ran("load_char_list", "")
    /\ UNCHANGED <<state, user_var, seiyuu_var, anime_list, seiyuu_list, listbox, message,
                   search_resp, otherVars>>

\* ------------------------------------------------------- specifications
\* simple_get alone: every url and response, then the call
FetchInit ==
    /\ url \in 1..NumUrls
    /\ resp \in Responses({Bytes(n) : n \in 0..MaxContent})
    /\ fetch_pc = "call"
    /\ ret = None
    /\ printed = 0
    /\ catalog_user = ""
    /\ catalog_resp = Failed
    /\ catalog_pc = "idle"
    /\ catalog = None
    /\ rows = <<>>
    /\ row_i = 0
    /\ characters = <<>>
    /\ seiyuu_exc = ""
    /\ search = ""
    /\ search_resp = Fail(NoPage)
    /\ search_pc = "idle"
    /\ found = None
    /\ state = 0
    /\ user_var = ""
    /\ seiyuu_var = ""
    /\ anime_list = None
    /\ seiyuu_list = NoResults
    /\ seiyuu = None
    /\ listbox = {}
    /\ results = <<>>
    /\ message = StateMessage(0)
    /\ last = Ran("__init__", "")

FetchNext == Get
SpecFetch == FetchInit /\ [][FetchNext]_vars

\* AnimeList(username) alone: every username and response, then the call
CatalogInit ==
    /\ url = 0
    /\ resp = Failed
    /\ fetch_pc = "idle"
    /\ ret = None
    /\ printed = 0
    /\ catalog_user \in Usernames
    /\ catalog_resp \in CatalogResponses
    /\ catalog_pc = "call"
    /\ catalog = None
    /\ rows = <<>>
    /\ row_i = 0
    /\ characters = <<>>
    /\ seiyuu_exc = ""
    /\ search = ""
    /\ search_resp = Fail(NoPage)
    /\ search_pc = "idle"
    /\ found = None
    /\ state = 0
    /\ user_var = ""
    /\ seiyuu_var = ""
    /\ anime_list = None
    /\ seiyuu_list = NoResults
    /\ seiyuu = None
    /\ listbox = {}
    /\ results = <<>>
    /\ message = StateMessage(0)
    /\ last = Ran("__init__", "")

CatalogNext == LoadCatalog
SpecCatalog == CatalogInit /\ [][CatalogNext]_vars

\* the loop of Seiyuu.load_seiyuu, row by row, over every table
LinkInit ==
    /\ url = 0
    /\ resp = Failed
    /\ fetch_pc = "idle"
    /\ ret = None
    /\ printed = 0
    /\ catalog_user = ""
    /\ catalog_resp = Failed
    /\ catalog_pc = "idle"
    /\ catalog = None
    /\ rows \in RowSeqs(GoodRows \cup {BadRow}, MaxRows)
    /\ row_i = 0
    /\ characters = <<>>
    /\ seiyuu_exc = ""
    /\ search = ""
    /\ search_resp = Fail(NoPage)
    /\ search_pc = "idle"
    /\ found = None
    /\ state = 0
    /\ user_var = ""
    /\ seiyuu_var = ""
    /\ anime_list = None
    /\ seiyuu_list = NoResults
    /\ seiyuu = None
    /\ listbox = {}
    /\ results = <<>>
    /\ message = StateMessage(0)
    /\ last = Ran("__init__", "")

LinkNext == NextRow \/ RowRaises
SpecLink == LinkInit /\ [][LinkNext]_vars

\* search_seiyuu alone: every search term and response, then the call
SearchInit ==
    /\ url = 0
    /\ resp = Failed
    /\ fetch_pc = "idle"
    /\ ret = None
    /\ printed = 0
    /\ catalog_user = ""
    /\ catalog_resp = Failed
    /\ catalog_pc = "idle"
    /\ catalog = None
    /\ rows = <<>>
    /\ row_i = 0
    /\ characters = <<>>
    /\ seiyuu_exc = ""
    /\ search \in SearchTerms
    /\ search_resp \in SearchResponses(MaxResultRows)
    /\ search_pc = "call"
    /\ found = None
    /\ state = 0
    /\ user_var = ""
    /\ seiyuu_var = ""
    /\ anime_list = None
    /\ seiyuu_list = NoResults
    /\ seiyuu = None
    /\ listbox = {}
    /\ results = <<>>
    /\ message = StateMessage(0)
    /\ last = Ran("__init__", "")

SearchNext == Search
SpecSearch == SearchInit /\ [][SearchNext]_vars

\* the GUI, from Main.__init__ on
MainInit ==
    /\ url = 0
    /\ resp = Failed
    /\ fetch_pc = "idle"
    /\ ret = None
    /\ printed = 0
    /\ catalog_user = ""
    /\ catalog_resp = Failed
    /\ catalog_pc = "idle"
    /\ catalog = None
    /\ rows = <<>>
    /\ row_i = 0
    /\ characters = <<>>
    /\ seiyuu_exc = ""
    /\ search = ""
    /\ search_resp = Fail(NoPage)
    /\ search_pc = "idle"
    /\ found = None
    /\ state = 0
    /\ user_var = ""
    /\ seiyuu_var = ""
    /\ anime_list = None
    /\ seiyuu_list = NoResults
    /\ seiyuu = None
    /\ listbox = {}
    /\ results = <<>>
    /\ message = StateMessage(0)
    /\ last = Ran("__init__", "")

MainNext ==
    \/ user_callback
    \/ seiyuu_callback
    \/ load_anime_list
    \/ load_seiyuu_list
    \/ load_char_list
Spec == MainInit /\ [][MainNext]_vars

\* --------------------------------------------------------------- claims
SetOf(list) == {list[k] : k \in 1..Len(list)}
Max(S) == CHOOSE m \in S : \A n \in S : n <= m
Least(S) == CHOOSE m \in S : \A n \in S : m <= n

\* the handler that ran last is load_char_list, and it raised nothing
FilterRan == last = Ran("load_char_list", "")

\* an entity is kept when its set of entry urls meets the catalog's
Kept(c, list) == SetOf(Urls(c.anime)) \cap SetOf(Urls(list.anime)) # {}

\* results row k shows character c whole, at grid row i
Shows(shown, c, i) ==
    /\ shown.row = i
    /\ shown.name = c.name
    /\ Len(shown.anime) = Len(c.anime)
    /\ \A j \in 1..Len(c.anime) : shown.anime[j] = c.anime[j].name

\* C1: with a catalog loaded, load_char_list shows a character if and only
\* if one of its entry urls is the url of a catalog entry; the characters
\* shown keep the order of the role list, each with all of its entries, and
\* a catalog with no entry shows nothing.
C1_FilterKeepsIntersecting ==
    (FilterRan /\ anime_list.kind = "AnimeList") =>
        LET chars == seiyuu.characters
        IN /\ {results[k].row : k \in 1..Len(results)}
                 = {i \in 0..(Len(chars) - 1) : Kept(chars[i + 1], anime_list)}
           /\ \A k \in 1..Len(results) :
                 /\ results[k].row \in 0..(Len(chars) - 1)
                 /\ Shows(results[k], chars[results[k].row + 1], results[k].row)
           /\ \A k, m \in 1..Len(results) : k < m => results[k].row < results[m].row
           /\ (Len(anime_list.anime) = 0 => results = <<>>)

\* a catalog with entries drops the first character and keeps the second
C1_Witness ==
    /\ FilterRan
    /\ anime_list.kind = "AnimeList"
    /\ Len(anime_list.anime) > 0
    /\ Len(seiyuu.characters) = 2
    /\ Len(results) = 1
    /\ results[1].row = 1

\* C2: after every row of the loop no two characters share a url, and no
\* two entries of one character share a url.
C2_UrlsUnique ==
    /\ \A i, j \in 1..Len(characters) :
          characters[i].url = characters[j].url => i = j
    /\ \A i \in 1..Len(characters) :
          \A j, k \in 1..Len(characters[i].anime) :
              characters[i].anime[j].url = characters[i].anime[k].url => j = k

\* three rows of one entity, two of them with the same entry
C2_Witness ==
    /\ row_i = 3
    /\ Len(characters) = 1
    /\ Len(characters[1].anime) = 2

\* the rows that carry entity url u, and those of them that carry entry a
RowsOf(u) == {k \in 1..Len(rows) : rows[k].entity_href = u}
RowsOfEntry(u, a) == {k \in RowsOf(u) : rows[k].entry_href = a}

\* C3: once the loop has handled every row of a table of well-formed rows,
\* there is one character per distinct entity url, in the order of first
\* appearance; its entries are the distinct entry urls of the rows with that
\* entity url, in the order of first occurrence; its name and role are those
\* of its first row.
C3_OneEntityPerUrl_EntriesInRowOrder ==
    (row_i = Len(rows) /\ seiyuu_exc = "") =>
        /\ SetOf(Urls(characters)) = {rows[k].entity_href : k \in 1..Len(rows)}
        /\ Len(characters) = Cardinality(SetOf(Urls(characters)))
        /\ \A i, j \in 1..Len(characters) :
              i < j => Least(RowsOf(characters[i].url)) < Least(RowsOf(characters[j].url))
        /\ \A i \in 1..Len(characters) :
              LET c == characters[i]
                  first == rows[Least(RowsOf(c.url))]
              IN /\ SetOf(Urls(c.anime)) = {rows[k].entry_href : k \in RowsOf(c.url)}
                 /\ Len(c.anime) = Cardinality(SetOf(Urls(c.anime)))
                 /\ \A j, k \in 1..Len(c.anime) :
                       j < k => Least(RowsOfEntry(c.url, c.anime[j].url))
                                    < Least(RowsOfEntry(c.url, c.anime[k].url))
                 /\ c.name = Strip(first.entity_text)
                 /\ c.role = Strip(first.role_text)

\* two rows of one entity with different entries, around a row of another
\* entity, and a different name on the entity's second row
C3_Witness ==
    /\ row_i = Len(rows)
    /\ seiyuu_exc = ""
    /\ Len(rows) = 3
    /\ rows[1].entity_href = rows[3].entity_href
    /\ rows[1].entity_href # rows[2].entity_href
    /\ rows[1].entry_href # rows[3].entry_href
    /\ rows[1].entity_text # rows[3].entity_text
    /\ Len(characters) = 2
    /\ Len(characters[1].anime) = 2

\* C4: with no catalog loaded (anime_list is None), load_char_list shows
\* every character of the role list, in order.
C4_NoCatalogShowsAll ==
    (FilterRan /\ anime_list = None) =>
        /\ Len(results) = Len(seiyuu.characters)
        /\ \A k \in 1..Len(results) : Shows(results[k], seiyuu.characters[k], k - 1)

C4_Witness ==
    /\ FilterRan
    /\ anime_list = None
    /\ Len(seiyuu.characters) = 2
    /\ Len(results) = 2

\* C5: simple_get never raises: whatever the GET did, it returns the content
\* or None.
C5_FetchNeverRaises ==
    fetch_pc = "done" => ret.kind \in {"bytes", "None"}

\* the media type a Content-Type header declares: the text before the first
\* ";", without blanks around it, in lower case
MediaType(header) ==
    LET k == Find(header, ";", 0)
    IN Lower(Strip(IF k = -1 THEN header ELSE Slice(header, 0, k)))
HtmlXmlMediaTypes ==
    {t \o "/" \o sub : t \in {"text", "application"}, sub \in {"html", "xml", "xhtml+xml"}}

\* C6: simple_get returns the content if and only if the GET raised nothing
\* and the declared content type is an HTML/XML media type.
C6_SuccessIffHtmlOrXml ==
    fetch_pc = "done" =>
        (ret.kind = "bytes" <=>
            /\ ~resp.exc
            /\ HasHeader(resp.headers, "Content-Type")
            /\ MediaType(HeaderGet(resp.headers, "Content-Type")) \in HtmlXmlMediaTypes)

\* the page in catalog_resp reached the parser
PageFetched == simple_get(catalog_resp).kind = "bytes"
HasMarker(page) == Find(page, Marker, 0) # -1
\* a closing bracket follows the marker
HasCloser(page) == Find(page, "]", Find(page, Marker, 0) + Len(Marker)) # -1

\* C7: a page without the marker, or with no closing bracket after it, never
\* loads as a valid catalog with entries.
C7_NoMarkerNoEntries ==
    (/\ catalog_pc = "done"
     /\ PageFetched
     /\ ~(HasMarker(catalog_resp.content) /\ HasCloser(catalog_resp.content)))
        => ~(catalog.kind = "AnimeList" /\ catalog.is_valid /\ Len(catalog.anime) > 0)

\* the page in search_resp reached the parser and is a results listing
ListingFetched ==
    /\ simple_get(search_resp).kind = "bytes"
    /\ search_resp.content.title = SearchTitle
IsResultRow(row) == Len(row) >= 2
\* the mapping the result rows rs stand for: each name to the url of the
\* last row that bears it
MappingOf(rs) ==
    [n \in {rs[k][2].string : k \in 1..Len(rs)} |->
        Origin \o rs[Max({k \in 1..Len(rs) : rs[k][2].string = n})][1].href]

\* C8 as stated: a linkless header row in front of one or more result rows
\* adds no entry and the search returns the mapping of the result rows.
C8_HeaderRowSkipped ==
    (/\ search_pc = "done"
     /\ ListingFetched
     /\ Len(search_resp.content.rows) >= 2
     /\ Len(search_resp.content.rows[1]) = 0
     /\ \A k \in 2..Len(search_resp.content.rows) : IsResultRow(search_resp.content.rows[k]))
        => found = [kind |-> "dict", val |-> MappingOf(Tail(search_resp.content.rows))]

\* C8 as amended: a listing of one or more result rows and no other row
\* returns the mapping of the rows; a linkless row in front of result rows
\* is not skipped: the search raises.
C8_ResultRowsMapped ==
    (search_pc = "done" /\ ListingFetched /\ Len(search_resp.content.rows) >= 1) =>
        LET rs == search_resp.content.rows
        IN /\ (\A k \in 1..Len(rs) : IsResultRow(rs[k]))
                 => found = [kind |-> "dict", val |-> MappingOf(rs)]
           /\ (/\ Len(rs) >= 2
               /\ Len(rs[1]) = 0
               /\ \A k \in 2..Len(rs) : IsResultRow(rs[k]))
                 => found = Raise("IndexError")

\* two rows bear the same name with different profiles: the later one stands
C8_Witness ==
    /\ search_pc = "done"
    /\ ListingFetched
    /\ Len(search_resp.content.rows) = 2
    /\ \A k \in 1..2 : IsResultRow(search_resp.content.rows[k])
    /\ search_resp.content.rows[1][2].string = search_resp.content.rows[2][2].string
    /\ search_resp.content.rows[1][1].href # search_resp.content.rows[2][1].href
    /\ found.kind = "dict"
    /\ DOMAIN found.val = {search_resp.content.rows[2][2].string}

\* the last search request was answered by a listing whose table is a single
\* row with no link
EmptyListingSearched ==
    /\ last.handler = "load_seiyuu_list"
    /\ simple_get(search_resp).kind = "bytes"
    /\ search_resp.content.title = SearchTitle
    /\ Len(search_resp.content.rows) = 1
    /\ Len(search_resp.content.rows[1]) = 0

\* C9: a listing whose table is a single row with no link gives the empty
\* mapping and no exception, and the GUI is then in state 1, not in state 2.
C9_EmptyListingStaysInSearch ==
    EmptyListingSearched =>
        /\ last.exc = ""
        /\ seiyuu_list = NoResults
        /\ state = 1
        /\ message = "Error: no voice actors found."

C9_Witness == EmptyListingSearched /\ state = 1 /\ listbox = {}

\* C10: in states 1 and 2 anime_list is None with a blank username, or a
\* valid list of the username in the entry; in state 2 seiyuu_list is not
\* empty; so load_char_list never filters by an invalid or a stale list.
CatalogCurrent ==
    \/ anime_list = None /\ Strip(user_var) = ""
    \/ /\ anime_list.kind = "AnimeList"
       /\ anime_list.is_valid
       /\ anime_list.username = user_var

C10_CatalogValidAndCurrent ==
    /\ state \in {1, 2} => CatalogCurrent
    /\ state = 2 => DOMAIN seiyuu_list # {}
    /\ last.handler = "load_char_list" => CatalogCurrent

C10_Witness ==
    /\ state = 2
    /\ FilterRan
    /\ anime_list.kind = "AnimeList"
    /\ anime_list.username = "bob"
    /\ Len(results) > 0

====
